---- MODULE Spec2Model ----
(***************************************************************************)
(* The forum scraper of src/scraper.py as a state machine: the SQLite      *)
(* tables it writes (Messages, Users, Topics, Boards, Statistics), the     *)
(* position of the main loop and its local variables, and the forum the    *)
(* scraper talks to as its environment.                                    *)
(*                                                                         *)
(* Column values are natural numbers; 0 stands for SQL NULL / Python None. *)
(* A table is a function from the keys of its rows to records of columns.  *)
(***************************************************************************)
EXTENDS Integers, Sequences, FiniteSets, TLC

\* ------------------------------------------------------------------ bounds
\* The highest message id the forum hands out in the model.
MaxMid == 4
\* Messages per page of the "recent" listing served by the forum.
RecentPerPage == 2

\* --------------------------------------------------- program constants
Null == 0
Now == 1
FLOOR_MID == 3
RECENT_PAGES == 10
REVIEW_SIZE == 1000
GREEDY_SCRAPE == FALSE

VARIABLES
    Messages,     \* table Messages: mid -> row
    Users,        \* table Users: uid -> row
    Topics,       \* table Topics: tid -> row
    Boards,       \* table Boards: bid -> row
    Statistics,   \* table Statistics: key -> value
    stat_key,     \* the key of the Statistics row update_stats wrote last
    pc,           \* position in the main loop
    raised,       \* the exception that ended the process, "none": running
    call,         \* the database function applied last and its argument
    sleeping,     \* retry_on_error: a RequestException was caught, in sleep(1)
    last_mid,     \* local last_mid
    first_mid,    \* local first_mid
    msg,          \* mid of the dict bound to the loop variable msg, 0: unbound
    msg_content,  \* msg["content"] as get_bbc or the loop left it
    i,            \* discovery: index of the listing page
    recent,       \* discovery: the rest of recent.contents (mids)
    scan_ids,     \* scan: the rest of the chain(...) iterator
    review_ids,   \* review: the rest of the query's rows
    mid,          \* scan / review: the loop variable mid
    page,         \* scan / review: the rest of topic_page.contents (mids)
    uids,         \* user phase: the rest of the fetchall() list
    posted,       \* forum: the highest message id posted so far
    deleted,      \* forum: the ids of deleted messages
    committed,    \* the five relations as of the last db.commit()
    req,          \* web API: the request being answered, <<>>: none
    resp,         \* web API: the response to req, <<>>: none
    BACKUP_DIR    \* server: the backup directory (manifest.json, the backup
                  \* files by name, whether backup.db exists)

\* A backup directory with nothing in it: manifest.json unreadable or {}, no
\* backup file, no backup.db.
EmptyDir == [manifest |-> <<>>, files |-> {}, backup_db |-> FALSE]

db == <<Messages, Users, Topics, Boards>>
stats == <<Statistics, stat_key>>
locals == <<last_mid, first_mid, msg, msg_content, i, recent, scan_ids, review_ids, mid, page, uids>>
forum == <<posted, deleted>>
web == <<req, resp, BACKUP_DIR>>
vars == <<Messages, Users, Topics, Boards, Statistics, stat_key, pc, raised, call, sleeping,
          last_mid, first_mid, msg, msg_content, i, recent, scan_ids,
          review_ids, mid, page, uids, posted, deleted, committed, req,
          resp, BACKUP_DIR>>

\* ------------------------------------------------------------ helpers
Max(S) == CHOOSE x \in S : \A y \in S : y <= x
Min(S) == CHOOSE x \in S : \A y \in S : x <= y

\* The elements of a finite set of integers, highest first.
Descending(S) ==
    [k \in 1..Cardinality(S) |->
        CHOOSE x \in S : Cardinality({y \in S : y >= x}) = k]

\* The elements of a finite set of integers, lowest first.
Ascending(S) ==
    [k \in 1..Cardinality(S) |->
        CHOOSE x \in S : Cardinality({y \in S : y <= x}) = k]

\* reversed(range(lo, hi)): hi-1, hi-2, ..., lo
ReversedRange(lo, hi) == Descending({x \in lo..(hi - 1) : TRUE})

\* ------------------------------------------------------------ the forum
\* Messages the forum shows: posted and not deleted.
Alive == (FLOOR_MID..posted) \ deleted

\* Forum data of a message: its topic (messages 3 and 4 share one, 5 and 6 the
\* next), its author, its topic's board.
TopicOf(m) == (m - 1) \div 2
AuthorOf(m) == (m % 2) + 1
BoardOf(t) == 1

\* Raw BBC a quotefast request may return (a post can be edited on the forum).
Contents == {1, 2}
\* Post counts a profile page may show.
PostCounts == {1}

\* The user dict a message record carries.
MsgUser(u) == [uid |-> u, name |-> u, avatar |-> Null, group |-> Null,
               posts |-> Null, signature |-> Null, email |-> Null,
               blurb |-> Null, location |-> Null, real_name |-> Null,
               social |-> Null, website |-> Null, gender |-> Null,
               last_scraped |-> Null]

\* parser.parse_profile: the user dict of a profile page.
ProfileUser(u, p) == [uid |-> u, name |-> u, avatar |-> 1, group |-> 1,
                      posts |-> p, signature |-> 1, email |-> 1,
                      blurb |-> 1, location |-> 1, real_name |-> 1,
                      social |-> 1, website |-> 1, gender |-> 1,
                      last_scraped |-> Null]

\* parser.parse_search_content: a record of the recent listing; it names the
\* board and the topic.
SearchRecord(m) == [mid |-> m, subject |-> m, date |-> m, edited |-> Null,
                    content |-> Null, user |-> MsgUser(AuthorOf(m)),
                    icon |-> Null, tid |-> TopicOf(m),
                    topic_name |-> TopicOf(m), bid |-> BoardOf(TopicOf(m)),
                    board_name |-> BoardOf(TopicOf(m))]

\* parser.parse_topic_content: a record of a topic page; no board context.
TopicRecord(m) == [mid |-> m, subject |-> m, date |-> m, edited |-> Null,
                   content |-> Null, user |-> MsgUser(AuthorOf(m)),
                   icon |-> Null, tid |-> TopicOf(m),
                   topic_name |-> TopicOf(m), bid |-> Null,
                   board_name |-> Null]

\* The recent listing: the visible messages, newest first.
RecentListing == Descending(Alive)

\* Page p (0-based) of the listing.
RecentPage(p) ==
    LET all == RecentListing
        lo == p * RecentPerPage + 1
        hi == IF (p + 1) * RecentPerPage < Len(all) THEN (p + 1) * RecentPerPage
              ELSE Len(all)
    IN IF lo > Len(all) THEN <<>> ELSE SubSeq(all, lo, hi)

\* The topic page that holds message m: the visible messages of its topic.
TopicPage(m) == Ascending({x \in Alive : TopicOf(x) = TopicOf(m)})

\* ------------------------------------------------------- the database
\* SQL ifnull(excluded.col, col)
IfNull(new, old) == IF new # Null THEN new ELSE old

\* Upsert with the on-conflict clause overwriting every column.
Upsert_Overwrite(table, key, row) ==
    [k \in DOMAIN table \cup {key} |-> IF k = key THEN row ELSE table[k]]

\* insert ... on conflict(key) do update set col = ifnull(excluded.col, col)
Upsert(table, key, row) ==
    IF key \in DOMAIN table
    THEN [table EXCEPT ![key] = [c \in DOMAIN row |-> IfNull(row[c], @[c])]]
    ELSE [k \in DOMAIN table \cup {key} |-> IF k = key THEN row ELSE table[k]]

\* insert or replace into table
InsertOrReplace(table, key, row) ==
    [k \in DOMAIN table \cup {key} |-> IF k = key THEN row ELSE table[k]]

\* update_user: the Users table after upserting user_dict.
update_user(table, user_dict) ==
    Upsert(table, user_dict.uid,
           [name |-> user_dict.name, avatar |-> user_dict.avatar,
            user_group |-> user_dict.group, posts |-> user_dict.posts,
            signature |-> user_dict.signature, email |-> user_dict.email,
            blurb |-> user_dict.blurb, location |-> user_dict.location,
            real_name |-> user_dict.real_name, social |-> user_dict.social,
            website |-> user_dict.website, gender |-> user_dict.gender,
            last_scraped |-> user_dict.last_scraped])

\* A row that marks the message as edited whenever it is scraped again.
MessageRow_EditedOnUpdate(msg_dict) ==
    [subject |-> msg_dict.subject, date |-> msg_dict.date,
     edited |-> IF msg_dict.mid \in DOMAIN Messages THEN Now
                ELSE msg_dict.edited,
     content |-> msg_dict.content,
     user |-> msg_dict.user.uid, icon |-> msg_dict.icon,
     tid |-> msg_dict.tid, last_scraped |-> Now]

\* The Messages row update_msg writes for msg_dict.
MessageRow(msg_dict) ==
    [subject |-> msg_dict.subject, date |-> msg_dict.date,
     edited |-> msg_dict.edited, content |-> msg_dict.content,
     user |-> msg_dict.user.uid, icon |-> msg_dict.icon,
     tid |-> msg_dict.tid, last_scraped |-> Now]

\* update_msg: all four tables after the call (it ends with db.commit()).
update_msg(msg_dict) ==
    /\ Boards' = IF msg_dict.bid # Null
                 THEN InsertOrReplace(Boards, msg_dict.bid,
                                      [board_name |-> msg_dict.board_name])
                 ELSE Boards
    /\ Topics' = InsertOrReplace(Topics, msg_dict.tid,
                                 [topic_name |-> msg_dict.topic_name,
                                  bid |-> msg_dict.bid])
    /\ Users' = update_user(Users, msg_dict.user)
    /\ Messages' = Upsert(Messages, msg_dict.mid, MessageRow(msg_dict))

\* update_stats that writes no row.
update_stats_Skipped(key, value) ==
    UNCHANGED <<Statistics, stat_key>>

\* update_stats: insert or replace into Statistics, then commit.
update_stats(key, value) ==
    /\ Statistics' = InsertOrReplace(Statistics, key, value)
    /\ stat_key' = key

\* The five relations as the open connection sees them.
store == <<Messages, Users, Topics, Boards, Statistics>>

\* A handler that ends without db.commit().
commit_Skipped == UNCHANGED committed

\* db.commit(): everything the connection wrote becomes durable. It closes
\* update_stats and update_msg, each turn of the user loop and each cycle,
\* and the finally clause of the main loop runs it when an exception ends
\* the process.
commit == committed' = store'

\* ---------------------------------------------------------------- Init
\* The process has logged in and connected to an empty database; the forum
\* holds any number of messages.
Init ==
    /\ Messages = <<>>
    /\ Users = <<>>
    /\ Topics = <<>>
    /\ Boards = <<>>
    /\ Statistics = <<>>
    /\ stat_key = "none"
    /\ pc = "top"
    /\ raised = "none"
    /\ call = <<>>
    /\ sleeping = FALSE
    /\ last_mid = 0
    /\ first_mid = 0
    /\ msg = 0
    /\ msg_content = Null
    /\ i = 0
    /\ recent = <<>>
    /\ scan_ids = <<>>
    /\ review_ids = {}
    /\ mid = 0
    /\ page = <<>>
    /\ uids = <<>>
    /\ posted \in (FLOOR_MID - 1)..MaxMid
    /\ deleted = {}
    /\ committed = <<Messages, Users, Topics, Boards, Statistics>>
    /\ req = <<>>
    /\ resp = <<>>
    /\ BACKUP_DIR = EmptyDir

\* The positions at which a forum request is in flight.
RequestPcs == {"disc_page", "disc_bbc", "scan_page", "scan_bbc",
               "rev_page", "rev_bbc", "user_req"}

\* An except clause inside the while loop that logs and goes on with the
\* next cycle.
Raise_Swallowed(exc) ==
    /\ pc' = "top"
    /\ raised' = raised
    /\ UNCHANGED locals

\* An exception leaves the while loop: except Exception: log, raise;
\* finally: db.commit(). The process ends and its locals with it.
Raise(exc) ==
    /\ pc' = "crashed"
    /\ raised' = exc
    /\ last_mid' = 0
    /\ first_mid' = 0
    /\ msg' = 0
    /\ msg_content' = Null
    /\ i' = 0
    /\ recent' = <<>>
    /\ scan_ids' = <<>>
    /\ review_ids' = {}
    /\ mid' = 0
    /\ page' = <<>>
    /\ uids' = <<>>

\* ------------------------------------------------------- retry_on_error
\* A wrapper that lets the RequestException through.
RetryFail_Propagates ==
    /\ pc \in RequestPcs
    /\ ~sleeping
    /\ Raise("RequestException")
    /\ UNCHANGED <<db, stats, call, web, sleeping, forum>>
    /\ commit

\* retry_on_error(func)(): the call raised RequestException; log, sleep(1).
RetryFail ==
    /\ pc \in RequestPcs
    /\ ~sleeping
    /\ sleeping' = TRUE
    /\ UNCHANGED <<db, stats, pc, raised, call, web, locals, forum, committed>>

\* retry_on_error: sleep(1) is over, the while loop calls func again.
RetryWake ==
    /\ sleeping
    /\ sleeping' = FALSE
    /\ UNCHANGED <<db, stats, pc, raised, call, web, locals, forum, committed>>

\* ------------------------------------------------------------ discovery
\* while True: last_mid = select ifnull(max(mid), 1); update_stats(...)
EnterDiscovery ==
    /\ pc = "top"
    /\ last_mid' = IF DOMAIN Messages = {} THEN 1 ELSE Max(DOMAIN Messages)
    /\ update_stats("phases.discovery", Now)
    /\ i' = 0
    /\ pc' = "disc_page"
    /\ UNCHANGED <<db, raised, call, web, sleeping, first_mid, msg, msg_content,
                   recent, scan_ids, review_ids, mid, page, uids, forum>>
    /\ commit

\* Where the for loop over the listing pages goes after page i is done.
NextRecentPage ==
    IF i + 1 < RECENT_PAGES
    THEN /\ i' = i + 1
         /\ pc' = "disc_page"
    ELSE /\ i' = i
         /\ pc' = "scan_enter"

\* api.do_action(session, "recent", start = i * 10) returned; parse the page.
DiscoveryPage ==
    /\ pc = "disc_page"
    /\ ~sleeping
    /\ LET contents == RecentPage(i)
       IN IF contents = <<>>
          THEN /\ NextRecentPage
               /\ UNCHANGED <<recent, msg, msg_content>>
          ELSE /\ recent' = contents
               /\ msg' = Head(contents)
               /\ msg_content' = SearchRecord(Head(contents)).content
               /\ i' = i
               /\ pc' = "disc_bbc"
    /\ UNCHANGED <<db, stats, raised, call, web, sleeping, last_mid, first_mid,
                   scan_ids, review_ids, mid, page, uids, forum, committed>>

\* msg.update_quotefast(): the raw BBC of message m, or TBGRequestError.
update_quotefast(m) ==
    IF m \in Alive
    THEN {[err |-> "none", content |-> c] : c \in Contents}
    ELSE {[err |-> "TBGRequestError", content |-> Null]}

\* A get_bbc that never assigns msg_dict["content"].
get_bbc_Dropped(m) == {[err |-> "none", content |-> Null]}

\* get_bbc: the content it leaves in msg_dict; TBGRequestError is caught.
get_bbc(m) ==
    {IF r.err = "TBGRequestError" THEN [err |-> "none", content |-> Null] ELSE r :
        r \in update_quotefast(m)}

\* A break test that lets the message of id last_mid pass.
DiscoveryBreak_Strict(m) == m < last_mid

\* Whether the discovery loop breaks after message m.
DiscoveryBreak(m) == m <= last_mid

\* for msg in recent.contents: get_bbc(msg); update_msg(msg); break?
DiscoveryMsg ==
    /\ pc = "disc_bbc"
    /\ ~sleeping
    /\ \E r \in get_bbc(msg) :
        IF r.err # "none"
        THEN /\ Raise(r.err)
             /\ UNCHANGED db
        ELSE /\ update_msg([SearchRecord(msg) EXCEPT !.content = r.content])
             /\ IF DiscoveryBreak(msg)
                THEN /\ pc' = "scan_enter"
                     /\ msg_content' = r.content
                     /\ UNCHANGED <<i, recent, msg>>
                ELSE IF Tail(recent) # <<>>
                THEN /\ recent' = Tail(recent)
                     /\ msg' = Head(Tail(recent))
                     /\ msg_content' = SearchRecord(Head(Tail(recent))).content
                     /\ i' = i
                     /\ pc' = "disc_bbc"
                ELSE /\ NextRecentPage
                     /\ msg_content' = r.content
                     /\ UNCHANGED <<recent, msg>>
             /\ UNCHANGED <<raised, last_mid, first_mid, scan_ids, review_ids,
                            mid, page, uids>>
    /\ UNCHANGED <<stats, call, web, sleeping, forum>>
    /\ commit

\* ----------------------------------------------------------------- scan
\* chain(reversed(range(last_mid, msg["mid"])), reversed(range(3, first_mid)))
ScanRange(lm, mm, fm) == ReversedRange(lm, mm) \o ReversedRange(FLOOR_MID, fm)

\* update_stats("phases.scan"); first_mid = select ifnull(min(mid), 1);
\* evaluating msg["mid"] with msg unbound raises NameError.
EnterScan ==
    /\ pc = "scan_enter"
    /\ update_stats("phases.scan", Now)
    /\ IF msg = 0
       THEN Raise("NameError")
       ELSE /\ pc' = "scan_next"
            /\ first_mid' = IF DOMAIN Messages = {} THEN 1
                            ELSE Min(DOMAIN Messages)
            /\ scan_ids' = ScanRange(last_mid, msg, first_mid')
            /\ UNCHANGED <<raised, last_mid, msg, msg_content, i, recent, review_ids, mid,
                           page, uids>>
    /\ UNCHANGED <<db, call, web, sleeping, forum>>
    /\ commit

\* A scan loop with no skip check.
ScanSkips_Never(m) == FALSE

\* A skip check that tests the selected content instead of the row.
ScanSkips_Content(m) == m \in DOMAIN Messages /\ Messages[m].content # Null

\* The scan loop's skip check on the row selected for mid m: the row is
\* fetched (select content ... fetchone()) and tested against None.
ScanSkips(m) == m \in DOMAIN Messages

\* for mid in chain(...): select content from Messages where mid=?; skip?
ScanNext ==
    /\ pc = "scan_next"
    /\ IF scan_ids = <<>>
       THEN /\ pc' = "rev_enter"
            /\ UNCHANGED <<scan_ids, mid>>
       ELSE /\ mid' = Head(scan_ids)
            /\ scan_ids' = Tail(scan_ids)
            /\ pc' = IF ScanSkips(Head(scan_ids)) THEN "scan_next"
                     ELSE "scan_page"
    /\ UNCHANGED <<db, stats, raised, call, web, sleeping, last_mid, first_mid,
                   msg, msg_content, i, recent, review_ids, page, uids, forum,
                   committed>>

\* api.get_message_page(session, m): the topic page, or TBGRequestError.
get_message_page(m) ==
    IF m \in Alive
    THEN [err |-> "none", contents |-> TopicPage(m)]
    ELSE [err |-> "TBGRequestError", contents |-> <<>>]

\* A scan and review loop whose try statement has no except clause.
OnMessagePage_Uncaught(r) == IF r.err = "TBGRequestError" THEN "raise" ELSE "page"

\* What the scan and review loops do with the answer to get_message_page:
\* "page" to walk the page, "continue" (except TBGRequestError) to go on with
\* the next id.
OnMessagePage(r) == IF r.err = "TBGRequestError" THEN "continue" ELSE "page"

\* res = get_message_page(mid) in phase ph ("scan" or "rev"), then parse.
MessagePage(ph) ==
    /\ pc = ph \o "_page"
    /\ ~sleeping
    /\ LET r == get_message_page(mid)
           todo == OnMessagePage(r)
       IN IF todo = "continue" \/ (todo = "page" /\ r.contents = <<>>)
          THEN /\ pc' = ph \o "_next"
               /\ UNCHANGED <<raised, last_mid, first_mid, msg, msg_content, i, recent,
                              scan_ids, review_ids, mid, page, uids>>
          ELSE IF todo = "page"
          THEN /\ pc' = ph \o "_msg"
               /\ page' = r.contents
               /\ UNCHANGED <<raised, last_mid, first_mid, msg, msg_content, i, recent,
                              scan_ids, review_ids, mid, uids>>
          ELSE Raise(r.err)
    /\ UNCHANGED <<db, stats, call, web, sleeping, forum>>
    /\ IF pc' = "crashed" THEN commit ELSE UNCHANGED committed

\* Where the loop over topic_page.contents goes after its first message.
NextPageMsg(ph) ==
    /\ page' = Tail(page)
    /\ pc' = IF Tail(page) = <<>> THEN ph \o "_next" ELSE ph \o "_msg"

\* for msg in topic_page.contents: get_bbc or blank the content; update_msg.
PageMsg(ph) ==
    /\ pc = ph \o "_msg"
    /\ msg' = Head(page)
    /\ IF GREEDY_SCRAPE \/ Head(page) = mid
       THEN /\ pc' = ph \o "_bbc"
            /\ msg_content' = TopicRecord(Head(page)).content
            /\ UNCHANGED <<db, page>>
       ELSE /\ msg_content' = Null
            /\ update_msg([TopicRecord(Head(page)) EXCEPT !.content = Null])
            /\ NextPageMsg(ph)
    /\ UNCHANGED <<stats, raised, call, web, sleeping, last_mid, first_mid, i,
                   recent, scan_ids, review_ids, mid, uids, forum>>
    /\ IF pc' = ph \o "_bbc" THEN UNCHANGED committed ELSE commit

\* get_bbc(msg); update_msg(msg) for the message of the page being scraped.
PageBBC(ph) ==
    /\ pc = ph \o "_bbc"
    /\ ~sleeping
    /\ \E r \in get_bbc(msg) :
        IF r.err # "none"
        THEN /\ Raise(r.err)
             /\ UNCHANGED db
        ELSE /\ msg_content' = r.content
             /\ update_msg([TopicRecord(msg) EXCEPT !.content = r.content])
             /\ NextPageMsg(ph)
             /\ UNCHANGED <<raised, last_mid, first_mid, msg, i, recent,
                            scan_ids, review_ids, mid, uids>>
    /\ UNCHANGED <<stats, call, web, sleeping, forum>>
    /\ commit

\* --------------------------------------------------------------- review
\* with recursive series(x): 3, then x+1 while x < (the highest stored mid).
Series ==
    IF DOMAIN Messages = {} THEN {FLOOR_MID}
    ELSE {FLOOR_MID} \cup ((FLOOR_MID + 1)..Max(DOMAIN Messages))

\* The rows the review query may return: one row per id of the series, the
\* rows of the lowest random priorities, cut at the limit.
ReviewSamples ==
    IF Cardinality(Series) <= REVIEW_SIZE THEN {Series}
    ELSE {s \in SUBSET Series : Cardinality(s) = REVIEW_SIZE}

\* update_stats("phases.review"); query = cursor.execute(...)
EnterReview ==
    /\ pc = "rev_enter"
    /\ update_stats("phases.review", Now)
    /\ review_ids' \in ReviewSamples
    /\ pc' = "rev_next"
    /\ UNCHANGED <<db, raised, call, web, sleeping, last_mid, first_mid, msg,
                   msg_content, i, recent, scan_ids, mid, page, uids, forum>>
    /\ commit

\* for mid, _ in query: the next row is any of the rows left, the order of the
\* rows being that of their random priorities.
ReviewNext ==
    /\ pc = "rev_next"
    /\ IF review_ids = {}
       THEN /\ pc' = "user_enter"
            /\ UNCHANGED <<review_ids, mid>>
       ELSE \E x \in review_ids :
            /\ mid' = x
            /\ review_ids' = review_ids \ {x}
            /\ pc' = "rev_page"
    /\ UNCHANGED <<db, stats, raised, call, web, sleeping, last_mid, first_mid,
                   msg, msg_content, i, recent, scan_ids, page, uids, forum,
                   committed>>

\* ----------------------------------------------------------- user phase
\* update_stats("phases.user"); select uid from Users ... fetchall(); with no
\* user stored the loop body never runs and the cycle ends (db.commit()).
EnterUser ==
    /\ pc = "user_enter"
    /\ update_stats("phases.user", Now)
    /\ uids' = Ascending(DOMAIN Users)
    /\ pc' = IF DOMAIN Users = {} THEN "top" ELSE "user_req"
    /\ UNCHANGED <<db, raised, call, web, sleeping, last_mid, first_mid, msg,
                   msg_content, i, recent, scan_ids, review_ids, mid, page,
                   forum>>
    /\ commit

\* The profile page of user u as parser.check_errors and parse_profile see
\* it: a profile, or the forum's error page (TBGRequestError).
profile(u) ==
    {[err |-> "none", user |-> ProfileUser(u, p)] : p \in PostCounts}
        \cup {[err |-> "TBGRequestError", user |-> MsgUser(u)]}

\* What the user loop does with an error of the profile request: no handler
\* surrounds it, so it reaches the except clause of the main loop.
OnProfileError(r) == "raise"

\* res = do_action("profile", u); check_errors; parse_profile; update_user;
\* db.commit(); after the last user the cycle ends (db.commit()).
UserProfile ==
    /\ pc = "user_req"
    /\ ~sleeping
    /\ \E r \in profile(Head(uids)) :
        IF r.err = "none"
        THEN /\ Users' = update_user(Users, r.user)
             /\ uids' = Tail(uids)
             /\ pc' = IF Tail(uids) = <<>> THEN "top" ELSE "user_req"
             /\ UNCHANGED <<raised, last_mid, first_mid, msg, msg_content, i, recent,
                            scan_ids, review_ids, mid, page>>
        ELSE IF OnProfileError(r) = "raise"
        THEN /\ Raise(r.err)
             /\ UNCHANGED Users
        ELSE /\ uids' = Tail(uids)
             /\ pc' = IF Tail(uids) = <<>> THEN "top" ELSE "user_req"
             /\ UNCHANGED <<Users, raised, last_mid, first_mid, msg, msg_content, i,
                            recent, scan_ids, review_ids, mid, page>>
    /\ UNCHANGED <<Messages, Topics, Boards, stats, call, web, sleeping, forum>>
    /\ commit

\* ------------------------------------------------- exceptions, restart
\* Any other exception raised while a request is handled (the parser,
\* sqlite3, ...): except Exception: log, raise; finally: db.commit().
Fatal ==
    /\ pc \in RequestPcs
    /\ ~sleeping
    /\ Raise("Exception")
    /\ UNCHANGED <<db, stats, call, web, sleeping, forum>>
    /\ commit

\* The process is started again on the same database file: the module level
\* code runs, the new connection sees what was committed, and the loop is
\* entered with every local unbound.
Restart ==
    /\ pc = "crashed"
    /\ pc' = "top"
    /\ raised' = "none"
    /\ Messages' = committed[1]
    /\ Users' = committed[2]
    /\ Topics' = committed[3]
    /\ Boards' = committed[4]
    /\ Statistics' = committed[5]
    /\ UNCHANGED <<stat_key, call, web, sleeping, locals, forum, committed>>

\* ------------------------------------------------------ the environment
\* Somebody posts a message: the forum gives it the next id.
Post ==
    /\ posted < MaxMid
    /\ posted' = posted + 1
    /\ UNCHANGED <<db, stats, pc, raised, call, web, sleeping, locals, deleted,
                   committed>>

\* A moderator deletes a message.
Delete ==
    /\ \E m \in Alive : deleted' = deleted \cup {m}
    /\ UNCHANGED <<db, stats, pc, raised, call, web, sleeping, locals, posted,
                   committed>>

\* The steps of the scraper process.
Controller ==
    \/ EnterDiscovery
    \/ DiscoveryPage
    \/ DiscoveryMsg
    \/ EnterScan
    \/ ScanNext
    \/ MessagePage("scan")
    \/ PageMsg("scan")
    \/ PageBBC("scan")
    \/ EnterReview
    \/ ReviewNext
    \/ MessagePage("rev")
    \/ PageMsg("rev")
    \/ PageBBC("rev")
    \/ EnterUser
    \/ UserProfile
    \/ RetryWake

Next ==
    \/ Controller
    \/ RetryFail
    \/ Fatal
    \/ Restart
    \/ Post
    \/ Delete

Spec == Init /\ [][Next]_vars

\* The steps in which a forum request returns (with an answer or with an
\* error that is not a RequestException).
Returns ==
    \/ DiscoveryPage
    \/ DiscoveryMsg
    \/ MessagePage("scan")
    \/ PageBBC("scan")
    \/ MessagePage("rev")
    \/ PageBBC("rev")
    \/ UserProfile

\* The process keeps running: a step it can take it takes, and sleep(1) ends.
FairSpec == Spec /\ WF_vars(Controller)

\* ------------------------------------------- the database functions alone
\* The message records a caller may pass to update_msg: any message of the
\* forum, its content and its board context known or not.
MsgDicts ==
    UNION {{[SearchRecord(m) EXCEPT !.content = c, !.bid = b, !.board_name = b] :
                c \in {Null} \cup Contents, b \in {Null, BoardOf(TopicOf(m))}} :
            m \in FLOOR_MID..MaxMid}

\* The user dicts a caller may pass to update_user.
UserDicts ==
    UNION {{MsgUser(AuthorOf(m)), ProfileUser(AuthorOf(m), 1),
            ProfileUser(AuthorOf(m), 2)} : m \in FLOOR_MID..MaxMid}

\* The database is empty and nothing but update_msg and update_user runs.
UpsertInit ==
    /\ Messages = <<>>
    /\ Users = <<>>
    /\ Topics = <<>>
    /\ Boards = <<>>
    /\ Statistics = <<>>
    /\ stat_key = "none"
    /\ pc = "db"
    /\ raised = "none"
    /\ call = <<>>
    /\ sleeping = FALSE
    /\ last_mid = 0
    /\ first_mid = 0
    /\ msg = 0
    /\ msg_content = Null
    /\ i = 0
    /\ recent = <<>>
    /\ scan_ids = <<>>
    /\ review_ids = {}
    /\ mid = 0
    /\ page = <<>>
    /\ uids = <<>>
    /\ posted = FLOOR_MID - 1
    /\ deleted = {}
    /\ committed = <<Messages, Users, Topics, Boards, Statistics>>
    /\ req = <<>>
    /\ resp = <<>>
    /\ BACKUP_DIR = EmptyDir

\* update_msg(d); call keeps the record and whether this is the first or a
\* repeated application of it.
CallUpdateMsg ==
    /\ pc = "db"
    /\ \E d \in MsgDicts :
        /\ update_msg(d)
        /\ call' = <<"update_msg", d,
                     IF call # <<>> /\ call[1] = "update_msg" /\ call[2] = d
                     THEN 2 ELSE 1>>
    /\ UNCHANGED <<stats, pc, raised, sleeping, locals, forum, web>>
    /\ commit

CallUpdateUser ==
    /\ pc = "db"
    /\ \E u \in UserDicts :
        /\ Users' = update_user(Users, u)
        /\ call' = <<"update_user", u>>
    /\ UNCHANGED <<Messages, Topics, Boards, stats, pc, raised, sleeping,
                   locals, forum, committed, web>>

UpsertNext == CallUpdateMsg \/ CallUpdateUser

UpsertSpec == UpsertInit /\ [][UpsertNext]_vars

\* The review query run on the store as it is: query = cursor.execute(...).
CallReviewQuery ==
    /\ pc = "db"
    /\ review_ids' \in ReviewSamples
    /\ call' = <<"review_query">>
    /\ UNCHANGED <<db, stats, pc, raised, sleeping, last_mid, first_mid, msg,
                   msg_content, i, recent, scan_ids, mid, page, uids, forum,
                   committed, web>>

SamplerNext == UpsertNext \/ CallReviewQuery

\* The review query on every store update_msg and update_user can build.
SamplerSpec == UpsertInit /\ [][SamplerNext]_vars

\* --------------------------------------------- the statistics web API
\* src/mostpan_ext/more_stats.py, message_count_over_time. Times are hours;
\* a condition string is the sequence of its lexemes.

\* The sample names the view accepts (the keys of DATE_FORMATS).
DATE_FORMATS == {"hourly", "daily", "weekly", "monthly"}

\* RANGE_LIMIT[sample], in hours.
RANGE_LIMIT(sample) ==
    CASE sample = "hourly" -> 168
      [] sample = "daily" -> 4032
      [] sample = "weekly" -> 33600
      [] sample = "monthly" -> 252000

\* DEFAULT_RANGE[sample], in hours.
DEFAULT_RANGE(sample) ==
    CASE sample = "hourly" -> 24
      [] sample = "daily" -> 672
      [] sample = "weekly" -> 4032
      [] sample = "monthly" -> 8736

\* strftime(DATE_FORMATS[sample], date): the bucket of hour t.
Bucket(sample, t) ==
    CASE sample = "hourly" -> t
      [] sample = "daily" -> t \div 24
      [] sample = "weekly" -> t \div 168
      [] sample = "monthly" -> t \div 720

\* The cap on the number of combinations.
MAX_CONDITIONS == 100
\* datetime.now() while a request is answered.
NowHour == 130
\* An id argument that is no integer literal ("abc"): int() raises ValueError.
NotANumber == -1

\* to_bool: bool(int(x)), or membership in the list of true words.
to_bool(x) == x \in {"1", "true", "True", "TRUE", "T", "t", "yes", "y", "YES"}

\* args.get(name, default=True, type=to_bool)
FlagOrTrue(x) == IF x = "absent" THEN TRUE ELSE to_bool(x)
\* args.get(name, default=False, type=to_bool)
FlagOrFalse(x) == IF x = "absent" THEN FALSE ELSE to_bool(x)

\* A lexeme of a condition string: a number, "user=", "tid=", "bid=", "or",
\* "and".
Tok(lex, n) == [lex |-> lex, n |-> n]
\* The condition "1".
One == <<Tok("num", 1)>>
\* f"user={int(uid)}"
Atom(col, id) == <<Tok(col, 0), Tok("num", id)>>

\* sep.join(conds), for a single condition or for atoms (two lexemes each):
\* every third lexeme of the result is the separator.
Join(sep, conds) ==
    IF Len(conds) = 1 THEN conds[1]
    ELSE [k \in 1..(3 * Len(conds) - 1) |->
            IF k % 3 = 0 THEN Tok(sep, 0)
            ELSE conds[((k - 1) \div 3) + 1][((k - 1) % 3) + 1]]

\* A condition list that joins the ids even when they are not to be combined.
Conditions_AlwaysCombined(col, ids, combine) ==
    LET listed == [k \in 1..Len(ids) |-> Atom(col, ids[k])]
        conds == IF listed = <<>> THEN <<One>> ELSE listed
    IN <<Join("or", conds)>>

\* The condition list of one kind: one atom per id, ["1"] for no id, and the
\* atoms joined by " or " into one condition when the kind is combined.
Conditions(col, ids, combine) ==
    LET listed == [k \in 1..Len(ids) |-> Atom(col, ids[k])]
        conds == IF listed = <<>> THEN <<One>> ELSE listed
    IN IF combine THEN <<Join("or", conds)>> ELSE conds

RECURSIVE ReSub(_)
\* re.sub(r"(?<!\d)1 and | and 1", "", s): scanning from the left, a number
\* lexeme 1 followed by "and" is dropped with it (a lexeme 1 is never preceded
\* by a digit), else "and" followed by a lexeme 1 is.
ReSub(s) ==
    LET hit(k) == \/ s[k] = Tok("num", 1) /\ s[k + 1] = Tok("and", 0)
                  \/ s[k] = Tok("and", 0) /\ s[k + 1] = Tok("num", 1)
    IN IF \E k \in 1..(Len(s) - 1) : hit(k)
       THEN LET k == CHOOSE j \in 1..(Len(s) - 1) :
                        hit(j) /\ \A l \in 1..(j - 1) : ~hit(l)
            IN SubSeq(s, 1, k - 1) \o ReSub(SubSeq(s, k + 2, Len(s)))
       ELSE s

\* combinations: one string per triple, users outermost, boards innermost.
Combinations(U, T, B) ==
    [k \in 1..(Len(U) * Len(T) * Len(B)) |->
        LET u == U[((k - 1) \div (Len(T) * Len(B))) + 1]
            t == T[(((k - 1) \div Len(B)) % Len(T)) + 1]
            b == B[((k - 1) % Len(B)) + 1]
        IN ReSub(u \o <<Tok("and", 0)>> \o t \o <<Tok("and", 0)>> \o b)]

RECURSIVE Split(_, _)
\* The parts of s between the lexemes sep.
Split(s, sep) ==
    IF \E k \in 1..Len(s) : s[k] = sep
    THEN LET k == CHOOSE j \in 1..Len(s) :
                     s[j] = sep /\ \A l \in 1..(j - 1) : s[l] # sep
         IN <<SubSeq(s, 1, k - 1)>> \o Split(SubSeq(s, k + 1, Len(s)), sep)
    ELSE <<s>>

\* The value of an operand of a comparison in a row.
Operand(tok, row) ==
    CASE tok.lex = "num" -> tok.n
      [] tok.lex = "user=" -> row.user
      [] tok.lex = "tid=" -> row.tid
      [] tok.lex = "bid=" -> row.bid

RECURSIVE Compare(_, _, _)
\* SQL a = b = c ...: = associates to the left and yields 0 or 1.
Compare(acc, rest, row) ==
    IF rest = <<>> THEN acc
    ELSE Compare(IF acc = Operand(Head(rest), row) THEN 1 ELSE 0,
                 Tail(rest), row)

\* SQL truth of a condition in a row: OR of ANDs of comparisons, AND binding
\* tighter than OR.
Holds(cond, row) ==
    \E a \in 1..Len(Split(cond, Tok("or", 0))) :
        LET conj == Split(Split(cond, Tok("or", 0))[a], Tok("and", 0))
        IN \A c \in 1..Len(conj) :
            Compare(Operand(conj[c][1], row), Tail(conj[c]), row) # 0

\* from Messages join Topics using (tid) join Boards using (bid): the rows of
\* the messages whose topic row names a stored board.
JoinedRows ==
    {[mid |-> m, user |-> Messages[m].user, tid |-> Messages[m].tid,
      bid |-> Topics[Messages[m].tid].bid, date |-> Messages[m].date] :
        m \in {x \in DOMAIN Messages :
                 /\ Messages[x].tid \in DOMAIN Topics
                 /\ Topics[Messages[x].tid].bid \in DOMAIN Boards}}

\* where (message_conditions) and (unixepoch(date) > start and
\* unixepoch(date) < end)
Selected(cond, start, end) ==
    {row \in JoinedRows : Holds(cond, row) /\ row.date > start /\ row.date < end}

\* The rows of one query: time -> count, one row per bucket that holds a
\* selected message; count(*), or its running sum over the buckets in order.
Query(cond, sample, start, end, cumulative) ==
    LET sel == Selected(cond, start, end)
        times == {Bucket(sample, row.date) : row \in sel}
    IN [b \in times |->
          Cardinality({row \in sel :
              IF cumulative THEN Bucket(sample, row.date) <= b
              ELSE Bucket(sample, row.date) = b})]

\* result after the query loop: time -> (message_conditions -> count).
Merged(combos, sample, start, end, cumulative) ==
    LET keys == {combos[k] : k \in 1..Len(combos)}
        times == UNION {DOMAIN Query(c, sample, start, end, cumulative) :
                            c \in keys}
    IN [b \in times |->
          [c \in {x \in keys :
                    b \in DOMAIN Query(x, sample, start, end, cumulative)} |->
              Query(c, sample, start, end, cumulative)[b]]]

RECURSIVE Fill(_, _, _, _, _)
\* for key_, point in sorted(result.items()): last_value.update(point); for
\* every combination point.setdefault(combination, int(last_value[...]) if
\* cumulative else 0). The default is evaluated before setdefault is called,
\* so a combination that last_value does not hold raises KeyError.
Fill(result, times, last_value, keys, cumulative) ==
    IF times = <<>> THEN [error |-> "none", counts |-> result]
    ELSE LET point == result[Head(times)]
             last == [c \in DOMAIN last_value \cup DOMAIN point |->
                         IF c \in DOMAIN point THEN point[c] ELSE last_value[c]]
             filled == [c \in keys |->
                         IF c \in DOMAIN point THEN point[c]
                         ELSE IF cumulative THEN last[c] ELSE 0]
         IN IF cumulative /\ ~(keys \subseteq DOMAIN last)
            THEN [error |-> "KeyError", counts |-> <<>>]
            ELSE Fill([result EXCEPT ![Head(times)] = filled], Tail(times),
                      last, keys, cumulative)

\* The status the API answers with when a view raises: handle_400_exceptions
\* for ValueError, TypeError and ExceptionGroup; handle_422_exceptions for
\* sqlite3.Error, which calls handle_exception(e, 400); handle_501_exceptions
\* for ImportError; else the server's 500.
ErrorStatus(exc) ==
    CASE exc \in {"ValueError", "TypeError", "ExceptionGroup"} -> 400
      [] exc = "sqlite3.Error" -> 400
      [] exc = "ImportError" -> 501
      [] OTHER -> 500

\* The response to a view that raised before it built its result.
Rejected(exc, message) ==
    [status |-> ErrorStatus(exc), error |-> exc, message |-> message,
     conditions |-> <<>>, queries |-> <<>>, start |-> 0, end |-> 0,
     counts |-> <<>>]

\* int(x) raises ValueError for one of the ids.
BadId(ids) == \E k \in 1..Len(ids) : ids[k] = NotANumber

\* A range check that rejects a range of exactly the limit.
RangeExceeds_AtLimit(sample, start, end) == end - start >= RANGE_LIMIT(sample)

\* end_range - start_range > RANGE_LIMIT[sample]
RangeExceeds(sample, start, end) == end - start > RANGE_LIMIT(sample)

\* A cap that rejects exactly 100 combinations.
TooMany_AtCap(n) == n >= MAX_CONDITIONS

\* len(user_conditions) * len(topic_conditions) * len(board_conditions) > 100
TooMany(n) == n > MAX_CONDITIONS

\* message_count_over_time(sample) for the request r: the response, with the
\* conditions of the queries it executed.
message_count_over_time(r) ==
    IF r.sample \notin DATE_FORMATS
    THEN Rejected("ValueError", "allowed sample ranges")
    ELSE IF BadId(r.user) \/ BadId(r.topic) \/ BadId(r.board)
    THEN Rejected("ValueError", "invalid literal for int()")
    ELSE IF r.start.kind = "bad" \/ r.end.kind = "bad"
    THEN Rejected("ValueError", "Invalid isoformat string")
    ELSE
    LET U == Conditions("user=", r.user, FlagOrTrue(r.combine_users))
        T == Conditions("tid=", r.topic, FlagOrTrue(r.combine_topics))
        B == Conditions("bid=", r.board, FlagOrTrue(r.combine_boards))
        start == IF r.start.kind = "absent"
                 THEN NowHour - DEFAULT_RANGE(r.sample) ELSE r.start.t
        end == IF r.end.kind = "absent" THEN NowHour ELSE r.end.t
        cumulative == FlagOrFalse(r.cumulative)
    IN IF RangeExceeds(r.sample, start, end)
       THEN Rejected("ValueError", "range exceeds limit")
       ELSE IF TooMany(Len(U) * Len(T) * Len(B))
       THEN Rejected("ValueError", "too many conditions")
       ELSE
       LET combos == Combinations(U, T, B)
           result == Merged(combos, r.sample, start, end, cumulative)
           filled == Fill(result, Ascending(DOMAIN result), <<>>,
                          {combos[k] : k \in 1..Len(combos)}, cumulative)
       IN IF filled.error # "none"
          THEN [Rejected(filled.error, "") EXCEPT !.queries = combos]
          ELSE [status |-> 200, error |-> "none", message |-> "",
                conditions |-> [user |-> U, topic |-> T, board |-> B],
                queries |-> combos, start |-> start, end |-> end,
                counts |-> filled.counts]

\* ---- the requests and stores the view is run on
\* A date argument: absent, no ISO date, or the hour t.
NoDate == [kind |-> "absent", t |-> 0]
BadDate == [kind |-> "bad", t |-> 0]
IsoDate(t) == [kind |-> "iso", t |-> t]

\* The id lists of a request: none, one or two of the ids the store knows.
IdLists == {<<>>, <<1>>, <<2>>, <<1, 2>>}

\* Requests that pass validation; the fill flag is set only on requests that
\* leave the combine flags out.
ValidRequests ==
    LET all ==
    UNION {{[sample |-> s, user |-> u, topic |-> t, board |-> b,
             combine_users |-> cu, combine_topics |-> ct,
             combine_boards |-> "absent", cumulative |-> c, fill |-> f,
             start |-> d[1], end |-> d[2]] :
              u \in IdLists, t \in IdLists, b \in {<<>>, <<1>>},
              cu \in {"absent", "0"}, ct \in {"absent", "0"},
              c \in {"absent", "1"},
              f \in {"absent", "1"},
              d \in {<<NoDate, NoDate>>,
                     <<IsoDate(NowHour - RANGE_LIMIT(s)), IsoDate(NowHour)>>}} :
           s \in {"hourly", "daily"}}
    IN {r \in all : r.fill = "1" =>
                        r.combine_users = "absent" /\ r.combine_topics = "absent"}

\* Requests with one argument that validation must refuse.
InvalidRequests ==
    LET base == {r \in ValidRequests :
                    /\ r.cumulative = "absent"
                    /\ r.combine_users = "absent"
                    /\ r.fill = "absent"}
    IN UNION {{[r EXCEPT !.sample = "yearly"],
               [r EXCEPT !.user = r.user \o <<NotANumber>>],
               [r EXCEPT !.topic = <<NotANumber>>],
               [r EXCEPT !.board = <<NotANumber>>],
               [r EXCEPT !.start = BadDate],
               [r EXCEPT !.end = BadDate],
               [r EXCEPT !.start = IsoDate(NowHour - RANGE_LIMIT(r.sample) - 1),
                         !.end = IsoDate(NowHour)]} : r \in base}

Requests == ValidRequests \cup InvalidRequests

\* The numbers of ids of one kind in the requests that probe the cap.
ListLengths == {0, 1, 2, 10, 11, 50, 51, 100, 101}

\* Requests with long id lists.
LongRequests ==
    {[sample |-> "daily", user |-> [k \in 1..nu |-> k],
      topic |-> [k \in 1..nt |-> k], board |-> [k \in 1..nb |-> k],
      combine_users |-> cu, combine_topics |-> ct, combine_boards |-> cb,
      cumulative |-> "absent", fill |-> "absent", start |-> NoDate,
      end |-> NoDate] :
        nu \in ListLengths, nt \in ListLengths, nb \in ListLengths,
        cu \in {"absent", "0"}, ct \in {"absent", "0"}, cb \in {"absent", "0"}}

\* The Messages row of message m written by user u in topic t.
StatsRow(m, u, t) ==
    [subject |-> m, date |-> 100 + 12 * (m - FLOOR_MID), edited |-> Null,
     content |-> 1, user |-> u, icon |-> Null, tid |-> t,
     last_scraped |-> Now]

\* The scraper is not running; the web API serves the database file.
WebInit ==
    /\ Users = <<>>
    /\ Statistics = <<>>
    /\ stat_key = "none"
    /\ pc = "web"
    /\ raised = "none"
    /\ call = <<>>
    /\ sleeping = FALSE
    /\ last_mid = 0
    /\ first_mid = 0
    /\ msg = 0
    /\ msg_content = Null
    /\ i = 0
    /\ recent = <<>>
    /\ scan_ids = <<>>
    /\ review_ids = {}
    /\ mid = 0
    /\ page = <<>>
    /\ uids = <<>>
    /\ posted = MaxMid
    /\ deleted = {}
    /\ req = <<>>
    /\ resp = <<>>
    /\ BACKUP_DIR = EmptyDir

\* A database the scraper has filled: every message by one of two users in
\* one of two topics; topic 1 is of board 1, the board of topic 2 is known
\* or not.
StatsInit ==
    /\ WebInit
    /\ \E f \in [FLOOR_MID..MaxMid -> {1, 2} \X {1, 2}] :
         Messages = [m \in FLOOR_MID..MaxMid |-> StatsRow(m, f[m][1], f[m][2])]
    /\ \E b \in {Null, 2} :
         Topics = [t \in {1, 2} |->
                     [topic_name |-> t, bid |-> IF t = 1 THEN 1 ELSE b]]
    /\ Boards = [b \in {1, 2} |-> [board_name |-> b]]
    /\ committed = <<Messages, Users, Topics, Boards, Statistics>>

\* An empty database.
CapInit ==
    /\ WebInit
    /\ Messages = <<>>
    /\ Topics = <<>>
    /\ Boards = <<>>
    /\ committed = <<Messages, Users, Topics, Boards, Statistics>>

\* GET /stats/counts/<sample>: the view runs and the response is sent.
Handle(pool) ==
    /\ pc = "web"
    /\ \E r \in pool :
        /\ req' = r
        /\ resp' = message_count_over_time(r)
    /\ pc' = "served"
    /\ UNCHANGED <<db, stats, raised, call, sleeping, locals, forum,
                   committed, BACKUP_DIR>>

HandleRequest == Handle(Requests)

\* GET /stats/counts/<sample> while the database cannot be read (it is
\* locked by the scraper's write, or the file is damaged): the arguments pass
\* validation, the first cur.execute raises a sqlite3.Error and the API's
\* error handler answers.
HandleStoreFailure ==
    /\ pc = "web"
    /\ \E r \in ValidRequests :
        /\ message_count_over_time(r).error # "ValueError"
        /\ req' = r
        /\ resp' = [Rejected("sqlite3.Error", "database is locked")
                      EXCEPT !.queries =
                        <<message_count_over_time(r).queries[1]>>]
    /\ pc' = "served"
    /\ UNCHANGED <<db, stats, raised, call, sleeping, locals, forum,
                   committed, BACKUP_DIR>>

HandleLongRequest == Handle(LongRequests)

\* The server waits for the next request.
AwaitRequest ==
    /\ pc = "served"
    /\ pc' = "web"
    /\ req' = <<>>
    /\ resp' = <<>>
    /\ UNCHANGED <<db, stats, raised, call, sleeping, locals, forum,
                   committed, BACKUP_DIR>>

StatsNext == HandleRequest \/ HandleStoreFailure \/ AwaitRequest

StatsSpec == StatsInit /\ [][StatsNext]_vars

CapNext == HandleLongRequest \/ AwaitRequest

CapSpec == CapInit /\ [][CapNext]_vars

\* ------------------------------------------------- the database backups
\* backup.py keeps at most MAX_BACKUPS backups of the database in BACKUP_DIR:
\* manifest.json maps the ISO time of a backup to the md5 of its file, which
\* is also the file's name. Times are numbered in their order.

\* How many backups to store.
MAX_BACKUPS == 4
\* The last time a backup run may start at.
MaxStamp == 7
\* The md5 digests the vacuumed database can have; the database need not
\* change between two backups.
Digests == {1, 2}

\* init_backup(): the manifest as manifest.json holds it ({} when the file
\* is new or unreadable).
init_backup(dir) == dir.manifest

\* A key that is the newest of the manifest.
Oldest_Newest(manifest) == Max(DOMAIN manifest)

\* min(manifest.items())[0]: the keys are unique, so the least pair is the
\* pair of the least key.
Oldest(manifest) == Min(DOMAIN manifest)

\* datetime.now().isoformat(timespec='seconds') of a run: the clock calls
\* make_backup at most once a day, so it is later than every stored time.
NowStamp(dir) ==
    IF DOMAIN dir.manifest = {} THEN 1 ELSE Max(DOMAIN dir.manifest) + 1

\* make_backup() up to the test of backup.db: with MAX_BACKUPS entries the
\* file of the oldest is unlinked and its entry deleted from the manifest
\* read (not from manifest.json).
Recycled(dir) ==
    LET manifest == init_backup(dir)
    IN IF Cardinality(DOMAIN manifest) = MAX_BACKUPS
       THEN [dir EXCEPT
               !.files = @ \ {manifest[Oldest(manifest)]},
               !.manifest = [t \in DOMAIN manifest \ {Oldest(manifest)} |->
                               manifest[t]]]
       ELSE dir

\* make_backup() where the vacuumed database has digest h: the directory it
\* leaves. When backup.db exists it returns after the recycling, and
\* manifest.json is not written; else the database is vacuumed into
\* backup.db, renamed to its digest (replacing a file of that name),
\* entered in the manifest, and the manifest is written.
make_backup(dir, h) ==
    LET kept == Recycled(dir)
    IN IF dir.backup_db
       THEN [dir EXCEPT !.files = kept.files]
       ELSE [manifest |-> [t \in DOMAIN kept.manifest \cup {NowStamp(dir)} |->
                             IF t = NowStamp(dir) THEN h
                             ELSE kept.manifest[t]],
             files |-> kept.files \cup {h},
             backup_db |-> FALSE]

\* The backup clock is the only thread that runs.
BackupInit ==
    /\ WebInit
    /\ Messages = <<>>
    /\ Topics = <<>>
    /\ Boards = <<>>
    /\ committed = <<Messages, Users, Topics, Boards, Statistics>>

\* backup_clock calls make_backup(); the run ends.
MakeBackup ==
    /\ pc = "web"
    /\ NowStamp(BACKUP_DIR) <= MaxStamp
    /\ \E h \in Digests :
        /\ BACKUP_DIR' = make_backup(BACKUP_DIR, h)
        /\ call' = <<"make_backup",
                     IF BACKUP_DIR.backup_db THEN "aborted" ELSE "stored", h>>
    /\ UNCHANGED <<db, stats, pc, raised, sleeping, locals, forum, committed,
                   req, resp>>

\* The server is stopped while make_backup() vacuums the database: the
\* recycling is done, backup.db is there, manifest.json is not written.
BackupInterrupted ==
    /\ pc = "web"
    /\ NowStamp(BACKUP_DIR) <= MaxStamp
    /\ ~BACKUP_DIR.backup_db
    /\ BACKUP_DIR' = [BACKUP_DIR EXCEPT !.files = Recycled(BACKUP_DIR).files,
                                        !.backup_db = TRUE]
    /\ call' = <<"make_backup", "interrupted", 0>>
    /\ UNCHANGED <<db, stats, pc, raised, sleeping, locals, forum, committed,
                   req, resp>>

\* The operator deletes a backup.db that stayed behind, as the warning of
\* make_backup() asks.
DeleteBackupDb ==
    /\ pc = "web"
    /\ BACKUP_DIR.backup_db
    /\ BACKUP_DIR' = [BACKUP_DIR EXCEPT !.backup_db = FALSE]
    /\ call' = <<"unlink", "backup.db", 0>>
    /\ UNCHANGED <<db, stats, pc, raised, sleeping, locals, forum, committed,
                   req, resp>>

BackupNext == MakeBackup \/ BackupInterrupted \/ DeleteBackupDb

BackupSpec == BackupInit /\ [][BackupNext]_vars

\* ------------------------------------- a stopped scraper, started again
\* The scraper was stopped at the first request of a Scan and is started
\* again, on a forum with more messages than the recent listing shows.

\* The number of messages the recent listing shows.
Listing == RECENT_PAGES * RecentPerPage

\* The row discovery wrote for message m.
ListedRow(m) == MessageRow([SearchRecord(m) EXCEPT !.content = 1])

\* The Users table once messages of both authors were stored: the user
\* phase of a completed cycle fetched the profiles of the authors of the
\* messages FLOOR_MID..old.
StoppedUsers(old) ==
    [u \in {AuthorOf(m) : m \in FLOOR_MID..(FLOOR_MID + 1)} |->
        IF u \in {AuthorOf(m) : m \in FLOOR_MID..old}
        THEN update_user(<<>>, ProfileUser(u, 1))[u]
        ELSE update_user(<<>>, MsgUser(u))[u]]

\* The database a scraper leaves that completed its cycles while the forum
\* held the messages FLOOR_MID..old (none: old < FLOOR_MID), then found the
\* forum grown to new messages, stored the listing in Discovery and was
\* stopped at the first request of Scan. The Review of a completed cycle
\* left the topics of the old messages without board.
StoppedAt(old, new) ==
    LET listed == (new - Listing + 1)..new
        ids == (FLOOR_MID..old) \cup listed
    IN /\ posted = new
       /\ deleted = {}
       /\ Messages = [m \in ids |-> ListedRow(m)]
       /\ Topics = [t \in {TopicOf(m) : m \in ids} |->
                      [topic_name |-> t,
                       bid |-> IF t \in {TopicOf(m) : m \in listed}
                               THEN BoardOf(t) ELSE Null]]
       /\ Boards = [b \in {BoardOf(TopicOf(m)) : m \in ids} |->
                      [board_name |-> b]]
       /\ Users = StoppedUsers(old)
       /\ Statistics = [k \in IF old >= FLOOR_MID
                              THEN {"phases.discovery", "phases.scan",
                                    "phases.review", "phases.user"}
                              ELSE {"phases.discovery", "phases.scan"} |-> Now]

\* The forums the scraper is started again on: the old forum was empty, or
\* held one or two messages; the new one has the messages of a listing and
\* from one to four more.
ResumeInit ==
    /\ \E old \in (FLOOR_MID - 1)..(FLOOR_MID + 1) :
         \E more \in 1..4 : StoppedAt(old, old + more + Listing)
    /\ stat_key = "phases.scan"
    /\ pc = "crashed"
    /\ raised = "Exception"
    /\ call = <<>>
    /\ sleeping = FALSE
    /\ last_mid = 0
    /\ first_mid = 0
    /\ msg = 0
    /\ msg_content = Null
    /\ i = 0
    /\ recent = <<>>
    /\ scan_ids = <<>>
    /\ review_ids = {}
    /\ mid = 0
    /\ page = <<>>
    /\ uids = <<>>
    /\ committed = <<Messages, Users, Topics, Boards, Statistics>>
    /\ req = <<>>
    /\ resp = <<>>
    /\ BACKUP_DIR = EmptyDir

\* The operator stops the scraper while it waits for a page of Review.
StopInReview == pc = "rev_page" /\ Fatal

\* The scraper is started again, runs its cycle up to the Review phase and
\* is stopped there.
ResumeNext ==
    \/ Restart
    \/ EnterDiscovery
    \/ DiscoveryPage
    \/ DiscoveryMsg
    \/ EnterScan
    \/ ScanNext
    \/ MessagePage("scan")
    \/ PageMsg("scan")
    \/ PageBBC("scan")
    \/ EnterReview
    \/ ReviewNext
    \/ StopInReview

ResumeSpec == ResumeInit /\ [][ResumeNext]_vars

\* The scraper is started again whenever it was stopped, and runs.
FairResumeSpec == ResumeSpec /\ WF_vars(ResumeNext)

\* ----------------------------------------------------------- the claims
MsgCols == {"subject", "date", "edited", "content", "user", "icon", "tid",
            "last_scraped"}
UserCols == {"name", "avatar", "user_group", "posts", "signature", "email",
             "blurb", "location", "real_name", "social", "website", "gender",
             "last_scraped"}

\* The value the statement binds to column c of Messages for record d.
MsgValue(d, c) ==
    CASE c = "user" -> d.user.uid
      [] c = "last_scraped" -> Now
      [] OTHER -> d[c]

\* The value the statement binds to column c of Users for user dict u.
UserValue(u, c) == IF c = "user_group" THEN u.group ELSE u[c]

\* The user dict the call of this step upserts.
CallUser == IF call'[1] = "update_msg" THEN call'[2].user ELSE call'[2]

\* C1: an upsert (update_msg keyed by mid, update_user keyed by uid) leaves
\* every row that exists in place; in the row of its key each column takes
\* the incoming value when that is non-null and keeps the stored value when
\* it is null; so no column of Messages or Users goes from non-null to null.
C1_UpsertMerges ==
    [][ /\ \A m \in DOMAIN Messages :
            /\ m \in DOMAIN Messages'
            /\ \A c \in MsgCols :
                /\ Messages'[m][c] =
                     IF call'[1] = "update_msg" /\ call'[2].mid = m
                        /\ MsgValue(call'[2], c) # Null
                     THEN MsgValue(call'[2], c)
                     ELSE Messages[m][c]
                /\ Messages[m][c] # Null => Messages'[m][c] # Null
        /\ \A u \in DOMAIN Users :
            /\ u \in DOMAIN Users'
            /\ \A c \in UserCols :
                /\ Users'[u][c] =
                     IF CallUser.uid = u /\ UserValue(CallUser, c) # Null
                     THEN UserValue(CallUser, c)
                     ELSE Users[u][c]
                /\ Users[u][c] # Null => Users'[u][c] # Null
      ]_vars

\* C1 witness: update_msg was called with null content for a message whose
\* stored content was known, and the stored content is still there.
C1_Witness ==
    /\ call # <<>>
    /\ call[1] = "update_msg"
    /\ call[2].content = Null
    /\ call[2].mid \in DOMAIN Messages
    /\ Messages[call[2].mid].content # Null

\* The phase a position of the loop belongs to, named by its statistic; the
\* position that ends a phase's loop still belongs to that phase.
PcPhase(p) ==
    CASE p \in {"disc_page", "disc_bbc", "scan_enter"} -> "phases.discovery"
      [] p \in {"scan_next", "scan_page", "scan_msg", "scan_bbc", "rev_enter"}
            -> "phases.scan"
      [] p \in {"rev_next", "rev_page", "rev_msg", "rev_bbc", "user_enter"}
            -> "phases.review"
      [] p = "user_req" -> "phases.user"
      [] OTHER -> "none"

PhaseOrder == {<<"phases.discovery", "phases.scan">>,
               <<"phases.scan", "phases.review">>,
               <<"phases.review", "phases.user">>}

\* C2: the phases of a cycle are entered in the order Discovery, Scan, Review,
\* UserRefresh, each once, the next cycle starts with Discovery, and at every
\* position of a phase (so at each of its forum requests) the statistic
\* written last is the phase-start statistic of that phase.
C2_PhaseOrder ==
    /\ [](pc \notin {"top", "crashed"} => stat_key = PcPhase(pc))
    /\ [][ /\ stat_key' # stat_key =>
                \/ <<stat_key, stat_key'>> \in PhaseOrder
                \/ stat_key' = "phases.discovery" /\ pc = "top"
           /\ (pc' = "top" /\ pc \notin {"top", "crashed"}) =>
                stat_key' = "phases.user"
         ]_vars

\* C2 witness: the profile request of the user phase is in flight and all
\* four phase-start statistics are recorded.
C2_Witness ==
    /\ pc = "user_req"
    /\ stat_key = "phases.user"
    /\ DOMAIN Statistics = {"phases.discovery", "phases.scan",
                            "phases.review", "phases.user"}

\* C3 as claimed: Discovery stops at the first listed message whose id is
\* <= last_mid (after it no listing page is fetched, no raw content is
\* requested and nothing is upserted by Discovery), and no raw-content request
\* is issued for a listed id below last_mid.
C3_DiscoveryStopsBeforeKnown ==
    /\ [](pc = "disc_bbc" => msg >= last_mid)
    /\ [][ (pc = "disc_bbc" /\ msg <= last_mid /\ pc' \in {"disc_bbc", "disc_page"})
              => UNCHANGED <<db, msg, i>> ]_vars

\* C3 as amended: Discovery stops at the first listed message whose id is
\* <= last_mid: after that message no listing page is fetched, no raw content
\* is requested and nothing is upserted by Discovery, and Scan is entered;
\* that message itself has been requested and upserted, whatever its id.
C3_DiscoveryStopsAtKnown ==
    [][ /\ (pc = "disc_bbc" /\ msg <= last_mid /\ pc' \in {"disc_bbc", "disc_page"})
              => UNCHANGED <<db, msg, i>>
        /\ (pc = "disc_bbc" /\ msg <= last_mid /\ pc' \notin {"disc_bbc", "crashed"})
              => (pc' = "scan_enter" /\ msg \in DOMAIN Messages')
      ]_vars

\* C3 witness: Discovery has stopped at a message of id <= last_mid with
\* entries of the listing page left behind it.
C3_Witness ==
    /\ pc = "scan_enter"
    /\ msg >= FLOOR_MID
    /\ msg <= last_mid
    /\ Tail(recent) # <<>>
    /\ msg \in DOMAIN Messages

\* C4: while Scan's message-page request for mid is in flight, Messages has no
\* row for mid or the row's content is null.
C4_ScanFetchesOnlyMissing ==
    pc = "scan_page" => (mid \notin DOMAIN Messages \/ Messages[mid].content = Null)

\* C4 witness: Scan, run again on a store a partial run left behind, requests
\* the page of an id that has no row while other rows hold content.
C4_Witness ==
    /\ pc = "scan_page"
    /\ mid \notin DOMAIN Messages
    /\ \E m \in DOMAIN Messages : Messages[m].content # Null

\* C5 as claimed: when Scan reaches an id whose row is absent or holds null
\* content, it issues the message-page request for it.
C5_ScanFetchesNullContent ==
    [][ (/\ pc = "scan_next"
         /\ scan_ids # <<>>
         /\ scan_ids' # scan_ids
         /\ \/ Head(scan_ids) \notin DOMAIN Messages
            \/ Messages[Head(scan_ids)].content = Null)
          => (pc' = "scan_page" /\ mid' = Head(scan_ids)) ]_vars

\* C5 as amended: when Scan reaches an id, it skips the id if Messages has a
\* row for it, whatever the row's content, and issues the message-page request
\* for it if Messages has no row for it.
C5_ScanFetchesAbsent ==
    [][ (pc = "scan_next" /\ scan_ids # <<>> /\ scan_ids' # scan_ids)
          => /\ mid' = Head(scan_ids)
             /\ pc' = IF Head(scan_ids) \in DOMAIN Messages THEN "scan_next"
                      ELSE "scan_page" ]_vars

\* C5 witness: Scan has just passed, without a request, an id of its range
\* whose row holds null content.
C5_Witness ==
    /\ pc = "scan_next"
    /\ msg # 0
    /\ mid \in DOMAIN Messages
    /\ Messages[mid].content = Null
    /\ LET full == ScanRange(last_mid, msg, first_mid)
       IN \E k \in 1..Len(full) :
            /\ full[k] = mid
            /\ scan_ids = SubSeq(full, k + 1, Len(full))

\* C6: when the forum answers the message-page request of Scan or Review for
\* mid with not-found, no table changes, the loop goes on with the next id of
\* the same phase and the process is not ended by TBGRequestError.
C6_NotFoundPageSkipped ==
    [][ (/\ pc \in {"scan_page", "rev_page"}
         /\ ~sleeping
         /\ mid \notin Alive
         /\ pc' # pc
         /\ raised' # "Exception")
          => /\ UNCHANGED <<db, stats>>
             /\ raised' = "none"
             /\ pc' = IF pc = "scan_page" THEN "scan_next" ELSE "rev_next" ]_vars

\* C6 witness: Scan goes on to its next id after a request for a deleted
\* message, for which no row was stored.
C6_Witness ==
    /\ pc = "scan_next"
    /\ mid >= FLOOR_MID
    /\ mid \notin Alive
    /\ mid \notin DOMAIN Messages

\* C7 as claimed: no not-found answer of the forum ends the process.
C7_NotFoundNeverFatal == raised # "TBGRequestError"

\* C9: an exception that is neither retried nor caught ends the loop: the
\* step that raises it leaves the tables as they are and the process ended,
\* an unbound msg at the start of Scan is such an exception, and an ended
\* process enters no phase, issues no request and writes nothing; only a
\* new process, started from the top of the module, runs again.
C9_ExceptionEndsLoop ==
    /\ [](raised # "none" <=> pc = "crashed")
    /\ [][ /\ (raised = "none" /\ raised' # "none") => UNCHANGED db
           /\ (pc = "scan_enter" /\ msg = 0 /\ pc' # pc) => raised' = "NameError"
           /\ pc = "crashed" =>
                /\ UNCHANGED <<db, stats, sleeping, locals>>
                /\ pc' \in {"crashed", "top"}
         ]_vars

\* C8: a RequestException raised by a forum call never ends the process;
\* catching it and sleeping change neither the tables nor the position nor any
\* local, so the same call is issued again; the sleep ends; and when transient
\* errors stop for good, the process is not left waiting in a call.
C8_TransientRetried ==
    /\ [](raised # "RequestException")
    /\ [](sleeping => pc \in RequestPcs)
    /\ [][ (sleeping \/ sleeping') => UNCHANGED <<db, stats, pc, raised, locals>> ]_vars
    /\ (sleeping ~> ~sleeping)
    /\ (<>[][~(~sleeping /\ sleeping')]_vars => []<>(pc \notin RequestPcs))

\* C8 witness: a request of the scan phase failed with a RequestException and
\* the wrapper sleeps before it issues the request again.
C8_Witness ==
    /\ sleeping
    /\ pc = "scan_page"
    /\ raised = "none"

\* C10 as claimed: every phase terminates and hands over to the next one for
\* every store and every listing, the empty listing included: when Discovery
\* is over and nothing but the loop's own code runs (no exception comes out
\* of a request), the loop goes on into Scan.
C10_EveryListingCycles ==
    [][ (pc = "scan_enter" /\ pc' # pc) => (pc' = "scan_next" /\ raised' = "none")
      ]_vars

\* What the loop does guarantee under a forum whose calls eventually return:
\* it comes back to the top again and again unless an exception ends the
\* process, and from the top it enters Discovery.
CycleRepeatsOrEnds ==
    SF_vars(Returns) =>
        /\ []<>(pc \in {"top", "crashed"})
        /\ (pc = "top" ~> pc \in {"disc_page", "crashed"})

\* C9 witness: the process was ended by an exception after it had stored
\* messages.
C9_Witness ==
    /\ pc = "crashed"
    /\ raised = "Exception"
    /\ DOMAIN Messages # {}

\* C11 as claimed: no update_msg call turns a known field of a stored record
\* into null; in particular the board id and the name of a stored topic stay
\* non-null once they are known.
C11_TopicKeepsBoard ==
    [][ \A t \in DOMAIN Topics :
            /\ t \in DOMAIN Topics'
            /\ Topics[t].bid # Null => Topics'[t].bid # Null
            /\ Topics[t].topic_name # Null => Topics'[t].topic_name # Null
      ]_vars

\* A table without its last_scraped column.
Strip(table) ==
    [k \in DOMAIN table |->
        [c \in DOMAIN table[k] \ {"last_scraped"} |-> table[k][c]]]

\* C12: update_msg applied to the record it was applied to in the step
\* before leaves Messages, Users, Topics and Boards (last_scraped aside) as
\* the first application left them.
C12_UpdateMsgIdempotent ==
    [][ (call # <<>> /\ call[1] = "update_msg" /\ call' # <<>>
         /\ call'[1] = "update_msg" /\ call'[2] = call[2] /\ call'[3] = 2)
          => /\ Strip(Messages') = Strip(Messages)
             /\ Strip(Users') = Strip(Users)
             /\ Topics' = Topics
             /\ Boards' = Boards ]_vars

\* C12 witness: update_msg has been applied twice in a row to a record with
\* content and board context, after other records had changed the topic.
C12_Witness ==
    /\ call # <<>>
    /\ call[1] = "update_msg"
    /\ call[3] = 2
    /\ Cardinality(DOMAIN Messages) > 1
    /\ call[2].content # Null
    /\ call[2].bid # Null
    /\ call[2].mid \in DOMAIN Messages
    /\ Messages[call[2].mid] = MessageRow(call[2])
    /\ Topics[call[2].tid].bid = call[2].bid
    /\ call[2].bid \in DOMAIN Boards

\* The step in which get_bbc and update_msg ran for the message bound to msg.
BBCStep ==
    /\ pc \in {"disc_bbc", "scan_bbc", "rev_bbc"}
    /\ ~sleeping
    /\ pc' # "crashed"
    /\ <<pc, i, recent, page>>' # <<pc, i, recent, page>>

\* C13 as claimed: when the raw-content request for a message signals
\* not-found, the row of that message exists afterwards and its stored
\* content is null, whatever the row held before.
C13_DeletedContentBlanked ==
    [][ (BBCStep /\ msg \notin Alive)
          => /\ msg \in DOMAIN Messages'
             /\ Messages'[msg].content = Null ]_vars

StoredRange ==
    IF DOMAIN Messages = {} THEN {}
    ELSE {x \in FLOOR_MID..MaxMid : x <= Max(DOMAIN Messages)}

ReqStart ==
    IF req.start.kind = "absent" THEN NowHour - DEFAULT_RANGE(req.sample)
    ELSE req.start.t
ReqEnd == IF req.end.kind = "absent" THEN NowHour ELSE req.end.t

\* The request names a sample that does not exist, an id that is no
\* integer or a date that is no ISO date.
Malformed ==
    \/ req.sample \notin DATE_FORMATS
    \/ \E k \in 1..Len(req.user) : req.user[k] = NotANumber
    \/ \E k \in 1..Len(req.topic) : req.topic[k] = NotANumber
    \/ \E k \in 1..Len(req.board) : req.board[k] = NotANumber
    \/ req.start.kind = "bad"
    \/ req.end.kind = "bad"

\* C17: a request with a bad sample name, a malformed date, a non-integer id
\* or a range longer than the sample's limit is answered with a validation
\* error (status 400) and no query is executed; a request is refused for its
\* range only when the range is longer than the limit.
C17_ValidationRejects ==
    pc = "served" =>
        /\ Malformed => (resp.status = 400 /\ resp.queries = <<>>)
        /\ (~Malformed /\ ReqEnd - ReqStart > RANGE_LIMIT(req.sample))
              => /\ resp.status = 400
                 /\ resp.message = "range exceeds limit"
                 /\ resp.queries = <<>>
        /\ resp.message = "range exceeds limit"
              => (~Malformed /\ ReqEnd - ReqStart > RANGE_LIMIT(req.sample))

\* C17 witness: a well-formed request whose range is one hour longer than
\* the limit was refused before any query.
C17_Witness ==
    /\ pc = "served"
    /\ resp.status = 400
    /\ resp.message = "range exceeds limit"
    /\ resp.queries = <<>>
    /\ ReqEnd - ReqStart = RANGE_LIMIT(req.sample) + 1

\* The id sets a kind asks for, one per condition: all its ids when the kind
\* is combined, one id each when it is not, {} (no filter) without ids.
IdSets(ids, flag) ==
    IF ids = <<>> THEN <<{}>>
    ELSE IF FlagOrTrue(flag) THEN <<{ids[k] : k \in 1..Len(ids)}>>
    ELSE [k \in 1..Len(ids) |-> {ids[k]}]

\* v passes the filter set.
Passes(set, v) == set = {} \/ v \in set

\* The messages of bucket b in the requested range whose user, topic and
\* board pass the three filter sets.
Wanted(us, ts, bs, b) ==
    {m \in DOMAIN Messages :
        /\ Messages[m].date > ReqStart
        /\ Messages[m].date < ReqEnd
        /\ Bucket(req.sample, Messages[m].date) = b
        /\ Passes(us, Messages[m].user)
        /\ Passes(ts, Messages[m].tid)
        /\ Passes(bs, Topics[Messages[m].tid].bid)}

\* C18 as claimed: in a successful non-cumulative response the count of a
\* combination in a bucket is the number of messages of the bucket and the
\* range that satisfy (user condition) AND (topic condition) AND (board
\* condition), a combined condition being the OR over its ids.
C18_CountsMatchFilter ==
    (pc = "served" /\ resp.status = 200 /\ ~FlagOrFalse(req.cumulative)) =>
        LET US == IdSets(req.user, req.combine_users)
            TS == IdSets(req.topic, req.combine_topics)
            BS == IdSets(req.board, req.combine_boards)
        IN \A u \in 1..Len(US), t \in 1..Len(TS), b \in 1..Len(BS) :
            \A time \in DOMAIN resp.counts :
                resp.counts[time][resp.queries[
                    ((u - 1) * Len(TS) + (t - 1)) * Len(BS) + b]]
                  = Cardinality(Wanted(US[u], TS[t], BS[b], time))

\* The number of conditions a kind contributes.
Contributes(ids, flag) ==
    IF FlagOrTrue(flag) \/ ids = <<>> THEN 1 ELSE Len(ids)

\* C19: in a successful response each kind lists one condition when it is
\* combined (the default) or has no id, and one per id otherwise; the
\* series are as many as the product of the three lists; and every bucket
\* has an entry for each series.
C19_SeriesPerCombination ==
    (pc = "served" /\ resp.status = 200) =>
        /\ Len(resp.conditions.user) = Contributes(req.user, req.combine_users)
        /\ Len(resp.conditions.topic)
             = Contributes(req.topic, req.combine_topics)
        /\ Len(resp.conditions.board)
             = Contributes(req.board, req.combine_boards)
        /\ Cardinality({resp.queries[k] : k \in 1..Len(resp.queries)})
             = Len(resp.conditions.user) * Len(resp.conditions.topic)
                 * Len(resp.conditions.board)
        /\ \A time \in DOMAIN resp.counts :
             DOMAIN resp.counts[time]
               = {resp.queries[k] : k \in 1..Len(resp.queries)}

\* C19 witness: users and topics are not combined, two ids each, and a bucket
\* of the response holds a count for one series and a filled-in zero for
\* another.
C19_Witness ==
    /\ pc = "served"
    /\ resp.status = 200
    /\ Len(resp.conditions.user) = 2
    /\ Len(resp.conditions.topic) = 2
    /\ \E time \in DOMAIN resp.counts :
         \E c, d \in DOMAIN resp.counts[time] :
            resp.counts[time][c] = 0 /\ resp.counts[time][d] > 0

\* C20: when the product of the numbers of user, topic and board conditions,
\* counted after combining, is above 100 the request is refused with a
\* validation error and no query is executed; up to and including 100 it is
\* answered, with one query per combination.
C20_CombinationCap ==
    pc = "served" =>
        LET n == Contributes(req.user, req.combine_users)
                   * Contributes(req.topic, req.combine_topics)
                   * Contributes(req.board, req.combine_boards)
        IN IF n > MAX_CONDITIONS
           THEN /\ resp.status = 400
                /\ resp.message = "too many conditions"
                /\ resp.queries = <<>>
           ELSE /\ resp.status = 200
                /\ Len(resp.queries) = n

\* C20 witness: 101 users combined into one condition, 10 topics and 11
\* boards not combined: 110 combinations, refused.
C20_Witness ==
    /\ pc = "served"
    /\ resp.status = 400
    /\ resp.message = "too many conditions"
    /\ Len(req.user) = 101
    /\ FlagOrTrue(req.combine_users)
    /\ Len(req.topic) = 10
    /\ Len(req.board) = 11

\* The rows the queries of the served request returned, before the backfill:
\* time -> (combination -> count).
RawCounts ==
    Merged(resp.queries, req.sample, ReqStart, ReqEnd,
           FlagOrFalse(req.cumulative))

\* The value the backfill is to leave for combination key in bucket time.
Backfilled(time, key) ==
    LET seen == {b \in DOMAIN RawCounts :
                    b < time /\ key \in DOMAIN RawCounts[b]}
    IN IF key \in DOMAIN RawCounts[time] THEN RawCounts[time][key]
       ELSE IF FlagOrFalse(req.cumulative) /\ seen # {}
            THEN RawCounts[Max(seen)][key]
            ELSE 0

\* C21 as claimed: a request that passed validation and whose queries ran
\* completes with a result, in which a combination missing from a bucket has
\* 0 in non-cumulative mode and, in cumulative mode, the value of the latest
\* earlier bucket that had the combination, or 0 when no earlier bucket had.
C21_BackfillCompletes ==
    (pc = "served" /\ resp.error \notin {"ValueError", "sqlite3.Error"}) =>
        /\ resp.status = 200
        /\ DOMAIN resp.counts = DOMAIN RawCounts
        /\ \A time \in DOMAIN RawCounts :
             \A k \in 1..Len(resp.queries) :
                resp.counts[time][resp.queries[k]]
                  = Backfilled(time, resp.queries[k])

\* C25: the manifest on disk never holds more than MAX_BACKUPS entries, and a
\* run that stores a backup when the manifest holds MAX_BACKUPS entries
\* removes the entry of the oldest time and no other.
C25_ManifestBounded ==
    [][ /\ Cardinality(DOMAIN BACKUP_DIR'.manifest) <= MAX_BACKUPS
        /\ (/\ call'[1] = "make_backup"
            /\ call'[2] = "stored"
            /\ Cardinality(DOMAIN BACKUP_DIR.manifest) = MAX_BACKUPS)
           => \E now \in 1..(MaxStamp + 1) :
                /\ now \notin DOMAIN BACKUP_DIR.manifest
                /\ DOMAIN BACKUP_DIR'.manifest
                     = (DOMAIN BACKUP_DIR.manifest
                          \ {Min(DOMAIN BACKUP_DIR.manifest)}) \cup {now}
                /\ \A t \in DOMAIN BACKUP_DIR.manifest
                              \ {Min(DOMAIN BACKUP_DIR.manifest)} :
                      BACKUP_DIR'.manifest[t] = BACKUP_DIR.manifest[t]
      ]_vars

\* C25 witness: a sixth backup was stored; the manifest holds the last four.
C25_Witness ==
    /\ call # <<>>
    /\ call[1] = "make_backup"
    /\ call[2] = "stored"
    /\ DOMAIN BACKUP_DIR.manifest = {3, 4, 5, 6}

\* Every entry of manifest.json names a file of the backup directory.
ManifestFilesExist(dir) ==
    \A t \in DOMAIN dir.manifest : dir.manifest[t] \in dir.files

\* C30 as claimed: a run of make_backup that starts with every entry of
\* manifest.json naming a stored file ends so, also when its backup has the
\* digest of an earlier one; and a run that aborts because backup.db exists
\* leaves manifest.json and the stored files as they were.
C30_ManifestNamesFiles ==
    [][ (call'[1] = "make_backup" /\ call'[2] \in {"stored", "aborted"}) =>
          /\ ManifestFilesExist(BACKUP_DIR) => ManifestFilesExist(BACKUP_DIR')
          /\ call'[2] = "aborted" => BACKUP_DIR' = BACKUP_DIR
      ]_vars

\* The native interval of a sample, in hours.
NativeStep(sample) ==
    CASE sample = "hourly" -> 1
      [] sample = "daily" -> 24
      [] sample = "weekly" -> 168
      [] sample = "monthly" -> 672

\* The buckets of the steps of the native interval in [start, end) of the
\* served request.
RangeBuckets ==
    {Bucket(req.sample, ReqStart + k * NativeStep(req.sample)) :
        k \in {j \in 0..(ReqEnd - ReqStart) :
                 ReqStart + j * NativeStep(req.sample) < ReqEnd}}

\* C22 as claimed: with fill enabled the result has a bucket for every step
\* of the native interval in [start, end), also for steps in which no message
\* was posted and when no row matches at all.
C22_FillCoversRange ==
    (pc = "served" /\ resp.status = 200 /\ FlagOrFalse(req.fill)) =>
        RangeBuckets \subseteq DOMAIN resp.counts

\* The messages of the requested range up to and including bucket b whose
\* user, topic and board pass the three filter sets.
WantedUpTo(us, ts, bs, b) ==
    {m \in DOMAIN Messages :
        /\ Messages[m].date > ReqStart
        /\ Messages[m].date < ReqEnd
        /\ Bucket(req.sample, Messages[m].date) <= b
        /\ Passes(us, Messages[m].user)
        /\ Passes(ts, Messages[m].tid)
        /\ Passes(bs, Topics[Messages[m].tid].bid)}

\* In a cumulative response no series decreases from a bucket to a later one.
CumulativeNonDecreasing ==
    (pc = "served" /\ resp.status = 200 /\ FlagOrFalse(req.cumulative)) =>
        \A k \in 1..Len(resp.queries) :
            \A b1, b2 \in DOMAIN resp.counts :
                b1 <= b2 =>
                    resp.counts[b1][resp.queries[k]]
                      <= resp.counts[b2][resp.queries[k]]

\* C23 as claimed: in a cumulative response no series decreases from a
\* bucket to a later one, and the value of a combination in a bucket is the
\* number of messages of the range, posted up to and including the bucket,
\* that match the combination's user, topic and board conditions.
C23_CumulativeRunningCount ==
    (pc = "served" /\ resp.status = 200 /\ FlagOrFalse(req.cumulative)) =>
        /\ CumulativeNonDecreasing
        /\ LET US == IdSets(req.user, req.combine_users)
               TS == IdSets(req.topic, req.combine_topics)
               BS == IdSets(req.board, req.combine_boards)
           IN \A u \in 1..Len(US), t \in 1..Len(TS), b \in 1..Len(BS) :
               \A time \in DOMAIN resp.counts :
                   resp.counts[time][resp.queries[
                       ((u - 1) * Len(TS) + (t - 1)) * Len(BS) + b]]
                     = Cardinality(WantedUpTo(US[u], TS[t], BS[b], time))

\* C24 as claimed: a sqlite3.Error raised while a statistics request is
\* served is answered with status 422, not with the status 400 of a
\* validation error.
C24_StoreErrorStatus ==
    (pc = "served" /\ resp.error = "sqlite3.Error") =>
        /\ resp.status = 422
        /\ resp.status # ErrorStatus("ValueError")

\* The rows a condition can be evaluated in.
ProbeRows == [user : 1..2, tid : 1..2, bid : 1..2]

\* C28 as claimed: the condition of every combination, as re.sub leaves it,
\* holds in exactly the rows in which '{user} and {topic} and {board}' holds,
\* also when an id is 1.
C28_StrippedEquivalent ==
    (pc = "served" /\ resp.status = 200) =>
        LET U == resp.conditions.user
            T == resp.conditions.topic
            B == resp.conditions.board
        IN \A u \in 1..Len(U), t \in 1..Len(T), b \in 1..Len(B) :
            \A row \in ProbeRows :
                Holds(resp.queries[((u - 1) * Len(T) + (t - 1)) * Len(B) + b],
                      row)
                  <=> Holds(U[u] \o <<Tok("and", 0)>> \o T[t]
                              \o <<Tok("and", 0)>> \o B[b], row)

\* The messages of bucket b whose date lies in the requested range.
PostedIn(b) ==
    {m \in DOMAIN Messages :
        /\ Messages[m].date > ReqStart
        /\ Messages[m].date < ReqEnd
        /\ Bucket(req.sample, Messages[m].date) = b}

\* C29 as claimed: without a user, topic or board filter the count of a
\* bucket is the number of stored messages of the bucket in the requested
\* range, also for messages whose topic row has a null board id.
C29_UnfilteredCountsAll ==
    (/\ pc = "served"
     /\ resp.status = 200
     /\ req.user = <<>> /\ req.topic = <<>> /\ req.board = <<>>
     /\ ~FlagOrFalse(req.cumulative)) =>
        \A m \in DOMAIN Messages :
            LET b == Bucket(req.sample, Messages[m].date)
            IN PostedIn(b) # {} =>
                /\ b \in DOMAIN resp.counts
                /\ resp.counts[b][resp.queries[1]] = Cardinality(PostedIn(b))

\* Message g is shown by the forum, lies below the highest stored id and has
\* no row.
Missing(g) ==
    /\ g \in Alive
    /\ DOMAIN Messages # {}
    /\ g < Max(DOMAIN Messages)
    /\ g \notin DOMAIN Messages

\* C26 as claimed: after the scraper was stopped in an incomplete Scan and
\* started again, every id from FLOOR_MID to the highest stored id that the
\* forum shows and that has no row is eventually requested by a Scan phase
\* (or has got its row by then).
C26_ScanFillsGaps ==
    \A g \in FLOOR_MID..(FLOOR_MID + 5) :
        (pc = "top" /\ Missing(g))
            ~> ((pc = "scan_page" /\ mid = g) \/ ~Missing(g))


\* C27: every id the Scan phase takes up lies from FLOOR_MID to below the last
\* id this cycle's Discovery saw, the ids come in descending order within
\* range (a) and then within range (b), and every message-page request of
\* Scan is for such an id; on the first cycle on an empty store too.
C27_ScanRequestsInRange ==
    [][/\ (pc = "scan_enter" /\ pc' = "scan_next") =>
            \E n \in 0..Len(scan_ids') :
                /\ \A k \in 1..Len(scan_ids') :
                       FLOOR_MID <= scan_ids'[k] /\ scan_ids'[k] < msg
                /\ \A k \in 1..(Len(scan_ids') - 1) :
                       k # n => scan_ids'[k] > scan_ids'[k + 1]
       /\ (pc = "scan_next" /\ pc' = "scan_page") =>
            (mid' = Head(scan_ids) /\ FLOOR_MID <= mid')]_vars
====
